---- MODULE Spec2Model ----
(***************************************************************************)
(* A model of messaging/mpid_header.rs: the MpidHeader value, its          *)
(* constructor, accessors, name and verify, the derived decoder, the       *)
(* one-shot initialisation of the crypto library, and the unit test        *)
(* `full`.                                                                 *)
(*                                                                         *)
(* Bytes are integers 0..255 and byte strings are sequences of them.       *)
(* The signing and hashing primitives are modelled as ideal primitives:    *)
(* a signature is the pair (signing key, signed bytes), a digest is the    *)
(* hashed bytes; neither has collisions.  A secret key carries its public  *)
(* key (as an Ed25519 secret key does).  An encoded value is a byte        *)
(* string followed by at most one opaque 64-byte signature block.          *)
(***************************************************************************)
EXTENDS Integers, Sequences, FiniteSets, TLC

(* ------------------------------ constants ------------------------------ *)

MAX_HEADER_METADATA_SIZE == 128

GUID_SIZE == 16

XOR_NAME_LEN == 64

SIGNATUREBYTES == 64

PUBLICKEYBYTES == 32

U64_BYTES == 8

(* ------------------------------- bounds -------------------------------- *)

\* metadata lengths tried: 0..Margin and MAX-Margin..MAX+Margin
Margin == 2

\* number of concurrently constructing threads
NumThreads == 2

\* the size limit of the encoder in the behaviours where it has one
EncoderLimit == 100

(* ------------------------------- values -------------------------------- *)

Fill(n, b) == [i \in 1..n |-> b]

None == <<>>

Some(x) == <<x>>

MetaLens ==
  (0..Margin) \cup
  ((MAX_HEADER_METADATA_SIZE - Margin)..(MAX_HEADER_METADATA_SIZE + Margin))

Metadatas == {Fill(n, 7) : n \in MetaLens} \cup {Fill(n, 200) : n \in {1, MAX_HEADER_METADATA_SIZE}}

Senders == {Fill(XOR_NAME_LEN, 1), Fill(XOR_NAME_LEN, 2)}

\* what rand::thread_rng().fill_bytes may write into the guid
GuidDraws == {Fill(GUID_SIZE, 0), Fill(GUID_SIZE, 9)}

\* sign::gen_keypair(): the public key's first byte is b0
KeyPair(b0) == [pk |-> <<b0>> \o Fill(PUBLICKEYBYTES - 1, 5)]

PublicKeyOf(secret_key) == secret_key.pk

SecretKeys == {KeyPair(1), KeyPair(255)}

\* the public keys of SecretKeys and one more
PublicKeys == {PublicKeyOf(k) : k \in SecretKeys} \cup {PublicKeyOf(KeyPair(0))}

(* ------------------------------ primitives ----------------------------- *)

\* sodiumoxide::crypto::sign::sign_detached
sign_detached(m, secret_key) == [key |-> secret_key, msg |-> m]

\* sodiumoxide::crypto::sign::verify_detached
verify_detached(sig, m, public_key) ==
  /\ sig.msg = m
  /\ PublicKeyOf(sig.key) = public_key

\* sodiumoxide::crypto::hash::sha512::hash
sha512_hash(m) == [digest_of |-> m]

(* ------------------------------- encoding ------------------------------ *)

\* the k low bytes of n, most significant first
RECURSIVE ToBE(_, _)
ToBE(n, k) == IF k = 0 THEN <<>> ELSE ToBE(n \div 256, k - 1) \o <<n % 256>>

\* big-endian u64
U64BE(n) == ToBE(n, U64_BYTES)

RECURSIVE FromU64BE(_)
FromU64BE(bs) ==
  IF bs = <<>> THEN 0
  ELSE 256 * FromU64BE(SubSeq(bs, 1, Len(bs) - 1)) + bs[Len(bs)]

\* derive(RustcEncodable) for Detail: sender, guid, then metadata with its length
Encode_Detail(detail) ==
  [data |-> detail.sender \o detail.guid
              \o U64BE(Len(detail.metadata)) \o detail.metadata,
   sig  |-> None]

\* derive(RustcEncodable) for MpidHeader: detail, then the signature
Encode_MpidHeader(h) ==
  [data |-> Encode_Detail(h.detail).data, sig |-> Some(h.signature)]

EncodedSize(enc) == Len(enc.data) + SIGNATUREBYTES * Len(enc.sig)

Ok(v) == [ok |-> TRUE, val |-> Some(v), err |-> ""]

Err(e) == [ok |-> FALSE, val |-> None, err |-> e]

\* serialise(): the encoding, or an error when the encoder's size limit
\* (if it has one) is exceeded
serialise(enc, limited) ==
  IF limited /\ EncodedSize(enc) > EncoderLimit
    THEN Err("SerializationFailed")
    ELSE Ok(enc)

FixedPart == XOR_NAME_LEN + GUID_SIZE + U64_BYTES

\* derive(RustcDecodable) for MpidHeader and Detail
Decode_MpidHeader(enc) ==
  IF Len(enc.data) < FixedPart THEN Err("DecodeFailed")
  ELSE LET n == FromU64BE(SubSeq(enc.data, XOR_NAME_LEN + GUID_SIZE + 1, FixedPart))
       IN  IF Len(enc.data) # FixedPart + n \/ enc.sig = None
             THEN Err("DecodeFailed")
             ELSE Ok([detail |->
                        [sender   |-> SubSeq(enc.data, 1, XOR_NAME_LEN),
                         guid     |-> SubSeq(enc.data, XOR_NAME_LEN + 1,
                                             XOR_NAME_LEN + GUID_SIZE),
                         metadata |-> SubSeq(enc.data, FixedPart + 1, FixedPart + n)],
                      signature |-> enc.sig[1]])

(* ------------------------------ MpidHeader ----------------------------- *)

\* mutant: the limit is off by one upwards
MetadataTooLarge_above(md) == Len(md) > MAX_HEADER_METADATA_SIZE + 1

\* mutant: the limit itself is rejected
MetadataTooLarge_atLimit(md) == Len(md) >= MAX_HEADER_METADATA_SIZE

MetadataTooLarge(md) == Len(md) > MAX_HEADER_METADATA_SIZE

\* rand::thread_rng().fill_bytes(&mut detail.guid)
fill_bytes(guid, draw) == [i \in DOMAIN guid |-> draw[i]]

NewDetail(sender_, md, draw) ==
  [sender   |-> sender_,
   guid     |-> fill_bytes(Fill(GUID_SIZE, 0), draw),
   metadata |-> md]

\* mutant: the detail is encoded before its guid is filled in
SignedBytes_beforeFill(detail) ==
  Encode_Detail([detail EXCEPT !.guid = Fill(GUID_SIZE, 0)])

SignedBytes(detail) == Encode_Detail(detail)

\* mutant: the result of the initialisation is not looked at
AssertInitialised_dropped(init_result) == TRUE

\* assert!(Self::initialise_sodiumoxide())
AssertInitialised(init_result) == init_result

\* MpidHeader::new after initialise_sodiumoxide() has returned init_result
new(sender_, md, secret_key, init_result, draw, limited) ==
  IF ~AssertInitialised(init_result) THEN [kind |-> "Panic", ret |-> None]
  ELSE IF MetadataTooLarge(md) THEN [kind |-> "MetadataTooLarge", ret |-> None]
  ELSE LET detail  == NewDetail(sender_, md, draw)
           encoded == serialise(SignedBytes(detail), limited)
       IN  IF ~encoded.ok
             THEN [kind |-> encoded.err, ret |-> None]
             ELSE [kind |-> "Ok",
                   ret  |-> Some([detail    |-> detail,
                                  signature |-> sign_detached(encoded.val[1], secret_key)])]

sender(h) == h.detail.sender

guid(h) == h.detail.guid

metadata(h) == h.detail.metadata

signature(h) == h.signature

\* mutant: the name leaves the signature out
NamedBytes_detailOnly(h) == Encode_Detail(h.detail)

NamedBytes(h) == Encode_MpidHeader(h)

name(h, limited) ==
  LET encoded == serialise(NamedBytes(h), limited)
  IN  IF ~encoded.ok THEN Err(encoded.err)
      ELSE Ok(sha512_hash(encoded.val[1]))

\* mutant: the whole header is encoded instead of the detail
verify_encodesHeader(h, public_key, limited) ==
  LET encoded == serialise(Encode_MpidHeader(h), limited)
  IN  IF encoded.ok
        THEN verify_detached(h.signature, encoded.val[1], public_key)
        ELSE FALSE

\* mutant: an encoding failure is taken for success
verify_errIsTrue(h, public_key, limited) ==
  LET encoded == serialise(Encode_Detail(h.detail), limited)
  IN  IF encoded.ok
        THEN verify_detached(h.signature, encoded.val[1], public_key)
        ELSE TRUE

verify(h, public_key, limited) ==
  LET encoded == serialise(Encode_Detail(h.detail), limited)
  IN  IF encoded.ok
        THEN verify_detached(h.signature, encoded.val[1], public_key)
        ELSE FALSE

(* ------------------------------- state --------------------------------- *)

VARIABLES
  once,                     \* INITIALISE_SODIUMOXIDE: INCOMPLETE, RUNNING, COMPLETE
  sodiumoxide_init_result,  \* the static mut flag
  inits,                    \* what the calls of sodiumoxide::init() returned, in order
  flagWrites,               \* how many times the flag has been written
  limited,                  \* whether the encoder has a size limit
  hdr,                      \* the header last constructed or decoded, if any
  origin,                   \* how hdr was obtained
  last,                     \* the last operation, its inputs and its result
  pc,                       \* per thread: where it is in new()
  arg,                      \* per thread: the arguments of its call of new()
  init_ret,                      \* per thread: what sodiumoxide::init() returned to it
  ret,                      \* per thread: what initialise_sodiumoxide() returned
  out,                      \* per thread: what its call of new() returned
  overflow_checks,          \* test build: whether integer overflow panics
  t_pc,                     \* test full: the next statement
  t_public_key,
  t_secret_key,
  t_sender,
  t_metadata,
  t_header,
  t_header1,
  t_header2,
  t_result                  \* test full: running, passed, or how it failed

initVars == <<once, sodiumoxide_init_result, inits, flagWrites>>

hdrVars == <<hdr, origin, last>>

thrVars == <<pc, arg, init_ret, ret, out>>

testVars ==
  <<overflow_checks, t_pc, t_public_key, t_secret_key, t_sender, t_metadata,
    t_header, t_header1, t_header2, t_result>>

vars == <<initVars, limited, hdrVars, thrVars, testVars>>

initCalls == Len(inits)

Threads == 1..NumThreads

NoKey == None

Idle ==
  [op |-> "none", sender |-> <<>>, metadata |-> <<>>, key |-> NoKey,
   pk |-> <<>>, kind |-> "", bool |-> FALSE, digest |-> None]

InitOnce ==
  /\ once = "INCOMPLETE"
  /\ sodiumoxide_init_result = FALSE
  /\ inits = <<>>
  /\ flagWrites = 0

NoArg == [sender |-> <<>>, metadata |-> <<>>, key |-> NoKey]

NoOut == [kind |-> "", ret |-> None]

InitHdr ==
  /\ hdr = None
  /\ origin = [via |-> "none", key |-> NoKey]
  /\ last = Idle

InitThreads ==
  /\ pc = [t \in Threads |-> "idle"]
  /\ arg = [t \in Threads |-> NoArg]
  /\ init_ret = [t \in Threads |-> FALSE]
  /\ ret = [t \in Threads |-> FALSE]
  /\ out = [t \in Threads |-> NoOut]

InitTest ==
  /\ t_pc = "l154"
  /\ t_public_key = <<>>
  /\ t_secret_key = NoKey
  /\ t_sender = <<>>
  /\ t_metadata = <<>>
  /\ t_header = None
  /\ t_header1 = None
  /\ t_header2 = None
  /\ t_result = "running"

Init ==
  /\ InitOnce
  /\ limited \in BOOLEAN
  /\ InitHdr
  /\ InitThreads
  /\ InitTest
  /\ overflow_checks = TRUE

\* initialise_sodiumoxide() run to completion by one thread: lib is what
\* sodiumoxide::init() returns if it is called
InitialiseSodiumoxide(lib) ==
  IF once = "INCOMPLETE"
    THEN /\ once' = "COMPLETE"
         /\ sodiumoxide_init_result' = lib
         /\ inits' = Append(inits, lib)
         /\ flagWrites' = flagWrites + 1
    ELSE UNCHANGED initVars

New(sender_, md, secret_key) ==
  \E lib \in BOOLEAN, draw \in GuidDraws :
    /\ once = "INCOMPLETE" \/ lib = sodiumoxide_init_result
    /\ InitialiseSodiumoxide(lib)
    /\ LET r == new(sender_, md, secret_key, sodiumoxide_init_result', draw, limited)
       IN  /\ hdr' = r.ret
           /\ origin' = IF r.kind = "Ok" THEN [via |-> "new", key |-> Some(secret_key)]
                        ELSE [via |-> "none", key |-> NoKey]
           /\ last' = [Idle EXCEPT !.op = "new", !.sender = sender_, !.metadata = md,
                                   !.key = Some(secret_key), !.kind = r.kind]
    /\ UNCHANGED <<limited, thrVars, testVars>>

Verify(public_key) ==
  /\ hdr # None
  /\ last' = [Idle EXCEPT !.op = "verify", !.pk = public_key,
                          !.bool = verify(hdr[1], public_key, limited)]
  /\ UNCHANGED <<initVars, limited, hdr, origin, thrVars, testVars>>

Name ==
  /\ hdr # None
  /\ LET r == name(hdr[1], limited)
     IN  last' = [Idle EXCEPT !.op = "name",
                              !.kind = IF r.ok THEN "Ok" ELSE r.err,
                              !.digest = r.val]
  /\ UNCHANGED <<initVars, limited, hdr, origin, thrVars, testVars>>

\* derive(Clone) for MpidHeader and Detail
clone(h) ==
  [detail    |-> [sender   |-> h.detail.sender,
                  guid     |-> h.detail.guid,
                  metadata |-> h.detail.metadata],
   signature |-> h.signature]

\* the caller goes on with the copy
Clone ==
  /\ hdr # None
  /\ hdr' = Some(clone(hdr[1]))
  /\ last' = [Idle EXCEPT !.op = "clone", !.kind = "Ok"]
  /\ UNCHANGED <<initVars, limited, origin, thrVars, testVars>>

Decode(enc) ==
  /\ LET r == Decode_MpidHeader(enc)
     IN  /\ hdr' = r.val
         /\ origin' = [via |-> IF r.ok THEN "decode" ELSE "none", key |-> NoKey]
         /\ last' = [Idle EXCEPT !.op = "decode",
                                 !.kind = IF r.ok THEN "Ok" ELSE r.err]
  /\ UNCHANGED <<initVars, limited, thrVars, testVars>>

\* what a peer may send: encodings of headers of any metadata length signed
\* by a key, the same carrying a signature of other bytes, and truncated
\* encodings
PeerDetails ==
  {[sender |-> Fill(XOR_NAME_LEN, 1), guid |-> Fill(GUID_SIZE, 9), metadata |-> m] :
     m \in Metadatas}

DecodeInputs ==
  {Encode_MpidHeader([detail |-> d,
                      signature |-> sign_detached(Encode_Detail(d), KeyPair(1))]) :
     d \in PeerDetails}
  \cup
  {Encode_MpidHeader([detail |-> d,
                      signature |-> sign_detached([data |-> <<>>, sig |-> None], KeyPair(1))]) :
     d \in PeerDetails}
  \cup
  UNION {{[data |-> SubSeq(Encode_Detail(d).data, 1, n), sig |-> None] :
            n \in {0, FixedPart - 1, FixedPart + Len(d.metadata)}} :
         d \in PeerDetails}

Next ==
  \/ \E s \in Senders, m \in Metadatas, k \in SecretKeys : New(s, m, k)
  \/ \E p \in PublicKeys : Verify(p)
  \/ Name
  \/ Clone
  \/ \E e \in DecodeInputs : Decode(e)

Spec == Init /\ [][Next]_vars

(* ------------------- concurrent calls of MpidHeader::new ---------------- *)

ThreadMetadatas ==
  {Fill(n, 7) : n \in {0, MAX_HEADER_METADATA_SIZE, MAX_HEADER_METADATA_SIZE + 1}}

\* thread t calls MpidHeader::new(sender, metadata, secret_key)
Call(t, md) ==
  /\ pc[t] \in {"idle", "returned"}
  /\ pc' = [pc EXCEPT ![t] = "call_once"]
  /\ arg' = [arg EXCEPT ![t] = [sender |-> Fill(XOR_NAME_LEN, 1), metadata |-> md,
                                key |-> Some(KeyPair(1))]]
  /\ out' = [out EXCEPT ![t] = NoOut]
  /\ UNCHANGED <<initVars, limited, hdrVars, init_ret, ret, testVars>>

\* mutant: a caller that finds the initialisation running does not wait
CallOnce_noWait(t) ==
  /\ pc[t] = "call_once"
  /\ IF once = "INCOMPLETE"
       THEN once' = "RUNNING" /\ pc' = [pc EXCEPT ![t] = "init"]
       ELSE once' = once /\ pc' = [pc EXCEPT ![t] = "read"]
  /\ UNCHANGED <<sodiumoxide_init_result, inits, flagWrites, limited, hdrVars,
                 arg, init_ret, ret, out, testVars>>

\* INITIALISE_SODIUMOXIDE.call_once: the first caller runs the closure, a
\* caller that finds it running waits, a later caller goes on
CallOnce(t) ==
  /\ pc[t] = "call_once"
  /\ once # "RUNNING"
  /\ IF once = "INCOMPLETE"
       THEN once' = "RUNNING" /\ pc' = [pc EXCEPT ![t] = "init"]
       ELSE once' = once /\ pc' = [pc EXCEPT ![t] = "read"]
  /\ UNCHANGED <<sodiumoxide_init_result, inits, flagWrites, limited, hdrVars,
                 arg, init_ret, ret, out, testVars>>

\* the closure: sodiumoxide::init() returns r
LibInit(t, r) ==
  /\ pc[t] = "init"
  /\ init_ret' = [init_ret EXCEPT ![t] = r]
  /\ inits' = Append(inits, r)
  /\ pc' = [pc EXCEPT ![t] = "write"]
  /\ UNCHANGED <<once, sodiumoxide_init_result, flagWrites, limited, hdrVars,
                 arg, ret, out, testVars>>

\* the closure: sodiumoxide_init_result = ...
WriteFlag(t) ==
  /\ pc[t] = "write"
  /\ sodiumoxide_init_result' = init_ret[t]
  /\ flagWrites' = flagWrites + 1
  /\ pc' = [pc EXCEPT ![t] = "complete"]
  /\ UNCHANGED <<once, inits, limited, hdrVars, arg, init_ret, ret, out, testVars>>

\* call_once returns to the caller that ran the closure
Complete(t) ==
  /\ pc[t] = "complete"
  /\ once' = "COMPLETE"
  /\ pc' = [pc EXCEPT ![t] = "read"]
  /\ UNCHANGED <<sodiumoxide_init_result, inits, flagWrites, limited, hdrVars,
                 arg, init_ret, ret, out, testVars>>

\* initialise_sodiumoxide() returns the flag
ReadFlag(t) ==
  /\ pc[t] = "read"
  /\ ret' = [ret EXCEPT ![t] = sodiumoxide_init_result]
  /\ pc' = [pc EXCEPT ![t] = "assert"]
  /\ UNCHANGED <<initVars, limited, hdrVars, arg, init_ret, out, testVars>>

\* the assertion and the rest of new(); a failed assertion unwinds the thread
Finish(t, draw) ==
  /\ pc[t] = "assert"
  /\ LET r == new(arg[t].sender, arg[t].metadata, arg[t].key[1], ret[t], draw, limited)
     IN  /\ out' = [out EXCEPT ![t] = r]
         /\ pc' = [pc EXCEPT ![t] = IF r.kind = "Panic" THEN "panicked" ELSE "returned"]
  /\ UNCHANGED <<initVars, limited, hdrVars, arg, init_ret, ret, testVars>>

InitThr ==
  /\ InitOnce
  /\ limited \in BOOLEAN
  /\ InitHdr
  /\ InitThreads
  /\ InitTest
  /\ overflow_checks = TRUE

NextThr ==
  \/ \E t \in Threads, m \in ThreadMetadatas : Call(t, m)
  \/ \E t \in Threads : CallOnce(t)
  \/ \E t \in Threads, r \in BOOLEAN : LibInit(t, r)
  \/ \E t \in Threads : WriteFlag(t)
  \/ \E t \in Threads : Complete(t)
  \/ \E t \in Threads : ReadFlag(t)
  \/ \E t \in Threads, d \in GuidDraws : Finish(t, d)

SpecInit == InitThr /\ [][NextThr]_vars

(* ------------------------------ test full ------------------------------ *)

\* first bytes the generated public key may have
KeyFirstBytes == 0..255

\* messaging::generate_random_bytes(MAX_HEADER_METADATA_SIZE)
RandomMetadatas ==
  {Fill(MAX_HEADER_METADATA_SIZE, 7), Fill(MAX_HEADER_METADATA_SIZE, 200)}

TestFails(how) ==
  /\ t_pc' = "end"
  /\ t_result' = how

TestGoes(label) ==
  /\ t_pc' = label
  /\ t_result' = t_result

\* let (mut public_key, secret_key) = sign::gen_keypair(); let sender = rand::random();
T_GenKeys(b0, s) ==
  /\ t_pc = "l154"
  /\ t_public_key' = PublicKeyOf(KeyPair(b0))
  /\ t_secret_key' = Some(KeyPair(b0))
  /\ t_sender' = s
  /\ TestGoes("l159")
  /\ UNCHANGED <<initVars, limited, hdrVars, thrVars, overflow_checks, t_metadata,
                 t_header, t_header1, t_header2>>

\* new() with empty metadata, unwrapped; its metadata is empty
T_NewEmpty(lib, draw) ==
  /\ t_pc = "l159"
  /\ once = "INCOMPLETE" \/ lib = sodiumoxide_init_result
  /\ InitialiseSodiumoxide(lib)
  /\ LET r == new(t_sender, <<>>, t_secret_key[1], sodiumoxide_init_result', draw, limited)
     IN  IF r.kind # "Ok" THEN TestFails("panic l159")
         ELSE IF metadata(r.ret[1]) # <<>> THEN TestFails("failed l160")
         ELSE TestGoes("l162")
  /\ UNCHANGED <<limited, hdrVars, thrVars, overflow_checks, t_public_key, t_secret_key,
                 t_sender, t_metadata, t_header, t_header1, t_header2>>

\* metadata of MAX_HEADER_METADATA_SIZE random bytes; new(), unwrapped, keeps it
T_NewAtLimit(md, lib, draw) ==
  /\ t_pc = "l162"
  /\ once = "INCOMPLETE" \/ lib = sodiumoxide_init_result
  /\ InitialiseSodiumoxide(lib)
  /\ t_metadata' = md
  /\ LET r == new(t_sender, md, t_secret_key[1], sodiumoxide_init_result', draw, limited)
     IN  IF r.kind # "Ok" THEN t_header' = None /\ TestFails("panic l163")
         ELSE /\ t_header' = r.ret
              /\ IF metadata(r.ret[1]) # md THEN TestFails("failed l164")
                  ELSE TestGoes("l165")
  /\ UNCHANGED <<limited, hdrVars, thrVars, overflow_checks, t_public_key, t_secret_key,
                 t_sender, t_header1, t_header2>>

\* metadata.push(0); new() is an error; metadata.pop()
T_NewOverLimit(lib, draw) ==
  /\ t_pc = "l165"
  /\ once = "INCOMPLETE" \/ lib = sodiumoxide_init_result
  /\ InitialiseSodiumoxide(lib)
  /\ LET pushed == Append(t_metadata, 0)
         r == new(t_sender, pushed, t_secret_key[1], sodiumoxide_init_result', draw, limited)
     IN  IF r.kind = "Panic" THEN t_metadata' = pushed /\ TestFails("panic l166")
         ELSE IF r.kind = "Ok" THEN t_metadata' = pushed /\ TestFails("failed l166")
         ELSE /\ t_metadata' = SubSeq(pushed, 1, Len(pushed) - 1)
              /\ TestGoes("l170")
  /\ UNCHANGED <<limited, hdrVars, thrVars, overflow_checks, t_public_key, t_secret_key,
                 t_sender, t_header, t_header1, t_header2>>

\* assert!(header.verify(&public_key))
T_VerifyValid ==
  /\ t_pc = "l170"
  /\ IF verify(t_header[1], t_public_key, limited) THEN TestGoes("l171")
     ELSE TestFails("failed l170")
  /\ UNCHANGED <<initVars, limited, hdrVars, thrVars, overflow_checks, t_public_key,
                 t_secret_key, t_sender, t_metadata, t_header, t_header1, t_header2>>

\* if public_key.0[0] == 255 { public_key.0[0] += 1 } else { public_key.0[0] = 0 }
T_Perturb ==
  /\ t_pc = "l171"
  /\ IF t_public_key[1] = 255
       THEN IF overflow_checks
              THEN t_public_key' = t_public_key /\ TestFails("panic l172")
              ELSE /\ t_public_key' = [t_public_key EXCEPT ![1] = (t_public_key[1] + 1) % 256]
                   /\ TestGoes("l176")
       ELSE /\ t_public_key' = [t_public_key EXCEPT ![1] = 0]
            /\ TestGoes("l176")
  /\ UNCHANGED <<initVars, limited, hdrVars, thrVars, overflow_checks, t_secret_key,
                 t_sender, t_metadata, t_header, t_header1, t_header2>>

\* assert!(!header.verify(&public_key))
T_VerifyInvalid ==
  /\ t_pc = "l176"
  /\ IF ~verify(t_header[1], t_public_key, limited) THEN TestGoes("l180")
     ELSE TestFails("failed l176")
  /\ UNCHANGED <<initVars, limited, hdrVars, thrVars, overflow_checks, t_public_key,
                 t_secret_key, t_sender, t_metadata, t_header, t_header1, t_header2>>

\* let header1 = unwrap_result!(MpidHeader::new(sender, metadata, &secret_key))
T_NewHeader1(lib, draw) ==
  /\ t_pc = "l180"
  /\ once = "INCOMPLETE" \/ lib = sodiumoxide_init_result
  /\ InitialiseSodiumoxide(lib)
  /\ LET r == new(t_sender, t_metadata, t_secret_key[1], sodiumoxide_init_result', draw,
                  limited)
     IN  /\ t_header1' = r.ret
         /\ IF r.kind # "Ok" THEN TestFails("panic l180") ELSE TestGoes("l181")
  /\ UNCHANGED <<limited, hdrVars, thrVars, overflow_checks, t_public_key, t_secret_key,
                 t_sender, t_metadata, t_header, t_header2>>

\* let header2 = unwrap_result!(MpidHeader::new(sender, metadata, &secret_key))
T_NewHeader2(lib, draw) ==
  /\ t_pc = "l181"
  /\ once = "INCOMPLETE" \/ lib = sodiumoxide_init_result
  /\ InitialiseSodiumoxide(lib)
  /\ LET r == new(t_sender, t_metadata, t_secret_key[1], sodiumoxide_init_result', draw,
                  limited)
     IN  /\ t_header2' = r.ret
         /\ IF r.kind # "Ok" THEN TestFails("panic l181") ELSE TestGoes("l182")
  /\ UNCHANGED <<limited, hdrVars, thrVars, overflow_checks, t_public_key, t_secret_key,
                 t_sender, t_metadata, t_header, t_header1>>

\* the assertions of lines 182 to 188, in order
T_AssertPair ==
  /\ t_pc = "l182"
  /\ LET h1 == t_header1[1]
         h2 == t_header2[1]
     IN  IF ~(h1 # h2) THEN TestFails("failed l182")
         ELSE IF sender(h1) # t_sender THEN TestFails("failed l183")
         ELSE IF sender(h1) # sender(h2) THEN TestFails("failed l184")
         ELSE IF metadata(h1) # t_metadata THEN TestFails("failed l185")
         ELSE IF metadata(h1) # metadata(h2) THEN TestFails("failed l186")
         ELSE IF ~(guid(h1) # guid(h2)) THEN TestFails("failed l187")
         ELSE IF ~(signature(h1) # signature(h2)) THEN TestFails("failed l188")
         ELSE TestGoes("l189")
  /\ UNCHANGED <<initVars, limited, hdrVars, thrVars, overflow_checks, t_public_key,
                 t_secret_key, t_sender, t_metadata, t_header, t_header1, t_header2>>

\* name1 and name2, unwrapped, differ
T_Names ==
  /\ t_pc = "l189"
  /\ LET name1 == name(t_header1[1], limited)
         name2 == name(t_header2[1], limited)
     IN  IF ~name1.ok THEN TestFails("panic l189")
         ELSE IF ~name2.ok THEN TestFails("panic l190")
         ELSE IF ~(name1.val # name2.val) THEN TestFails("failed l191")
         ELSE t_pc' = "end" /\ t_result' = "passed"
  /\ UNCHANGED <<initVars, limited, hdrVars, thrVars, overflow_checks, t_public_key,
                 t_secret_key, t_sender, t_metadata, t_header, t_header1, t_header2>>

\* the test is built with overflow checks (debug) or without (release)
InitFull ==
  /\ InitOnce
  /\ limited \in BOOLEAN
  /\ InitHdr
  /\ InitThreads
  /\ InitTest
  /\ overflow_checks \in BOOLEAN

NextFull ==
  \/ \E b0 \in KeyFirstBytes, s \in Senders : T_GenKeys(b0, s)
  \/ \E lib \in BOOLEAN, d \in GuidDraws : T_NewEmpty(lib, d)
  \/ \E m \in RandomMetadatas, lib \in BOOLEAN, d \in GuidDraws : T_NewAtLimit(m, lib, d)
  \/ \E lib \in BOOLEAN, d \in GuidDraws : T_NewOverLimit(lib, d)
  \/ T_VerifyValid
  \/ T_Perturb
  \/ T_VerifyInvalid
  \/ \E lib \in BOOLEAN, d \in GuidDraws : T_NewHeader1(lib, d)
  \/ \E lib \in BOOLEAN, d \in GuidDraws : T_NewHeader2(lib, d)
  \/ T_AssertPair
  \/ T_Names

SpecFull == InitFull /\ [][NextFull]_vars

(* ------------------------- claims about Spec --------------------------- *)

InitSucceeded == once = "COMPLETE" /\ sodiumoxide_init_result

\* C1: with the crypto library initialised, new() of metadata longer than
\* MAX_HEADER_METADATA_SIZE (129 bytes included) returns MetadataTooLarge and
\* no header.
C1_MetadataTooLarge ==
  (last.op = "new" /\ InitSucceeded /\ Len(last.metadata) > MAX_HEADER_METADATA_SIZE)
    => (last.kind = "MetadataTooLarge" /\ hdr = None)

C1_Witness ==
  /\ last.op = "new" /\ InitSucceeded
  /\ Len(last.metadata) = MAX_HEADER_METADATA_SIZE + 1
  /\ last.kind = "MetadataTooLarge"

\* C2: with the crypto library initialised and the encoding succeeding, new()
\* of metadata of 0..MAX_HEADER_METADATA_SIZE bytes returns a header whose
\* sender() and metadata() are the arguments and whose guid() has GUID_SIZE
\* bytes.
C2_NewSucceeds ==
  (/\ last.op = "new" /\ InitSucceeded
   /\ Len(last.metadata) <= MAX_HEADER_METADATA_SIZE
   /\ last.kind # "SerializationFailed")
    => /\ last.kind = "Ok"
       /\ hdr # None
       /\ sender(hdr[1]) = last.sender
       /\ metadata(hdr[1]) = last.metadata
       /\ Len(guid(hdr[1])) = GUID_SIZE

C2_Witness ==
  /\ last.op = "new" /\ last.kind = "Ok" /\ hdr # None
  /\ Len(last.metadata) = MAX_HEADER_METADATA_SIZE
  /\ metadata(hdr[1]) = last.metadata

\* C3: a header returned by new(sender, metadata, sk) verifies against the
\* public key of sk and against no other key, and its signature is the
\* signature by sk of the encoding of its own detail.
C3_VerifyOwnKeyOnly ==
  (origin.via = "new" /\ last.op = "verify")
    => /\ last.bool = (last.pk = PublicKeyOf(origin.key[1]))
       /\ signature(hdr[1]) =
            sign_detached([data |-> sender(hdr[1]) \o guid(hdr[1])
                                      \o U64BE(Len(metadata(hdr[1])))
                                      \o metadata(hdr[1]),
                           sig |-> None],
                          origin.key[1])

C3_Witness ==
  /\ origin.via = "new" /\ last.op = "verify"
  /\ last.pk = PublicKeyOf(origin.key[1])
  /\ last.bool

\* C6 as claimed: every observable header, from new(), clone() or the derived
\* decoder, has metadata of at most MAX_HEADER_METADATA_SIZE bytes.
C6_MetadataBounded ==
  hdr # None => Len(metadata(hdr[1])) <= MAX_HEADER_METADATA_SIZE

DetailEncodes == serialise(Encode_Detail(hdr[1].detail), limited).ok

\* C7: verify() returns a boolean for every header and key, returns false
\* when the encoding of the detail fails, and leaves the header as it was.
C7_VerifyTotal ==
  /\ [](last.op = "verify" =>
          /\ last.bool \in BOOLEAN
          /\ ~DetailEncodes => last.bool = FALSE)
  /\ [][last'.op = "verify" => hdr' = hdr]_vars

C7_Witness ==
  /\ last.op = "verify"
  /\ ~DetailEncodes
  /\ last.bool = FALSE

HeaderWire ==
  [data |-> sender(hdr[1]) \o guid(hdr[1]) \o U64BE(Len(metadata(hdr[1])))
              \o metadata(hdr[1]),
   sig  |-> <<signature(hdr[1])>>]

\* C8: name() is SHA-512 of the encoding of the whole header, the detail
\* followed by the signature, hence a function of the header's fields; when
\* that encoding fails it returns SerializationFailed and no name.
C8_NameIsHashOfHeader ==
  last.op = "name" =>
    IF serialise(HeaderWire, limited).ok
      THEN last.kind = "Ok" /\ last.digest = Some(sha512_hash(HeaderWire))
      ELSE last.kind = "SerializationFailed" /\ last.digest = None

C8_Witness ==
  /\ last.op = "name"
  /\ last.kind = "Ok"
  /\ last.digest = Some(sha512_hash(HeaderWire))

(* ----------------------- claims about SpecInit -------------------------- *)

Called(t) == pc[t] \in {"returned", "panicked"}

\* C4 as claimed: once the initialisation has failed, every call of new()
\* returns the error CryptoInitFailed and no header.
C4_ReturnsCryptoInitFailed ==
  \A t \in Threads :
    (Called(t) /\ ~ret[t]) => (out[t].kind = "CryptoInitFailed" /\ out[t].ret = None)

\* C4 amended: once the initialisation has failed, every call of new(),
\* whatever the metadata size, ends in a failed assertion (a panic, not an
\* error value), and no header is returned.
C4_PanicsWhenInitFailed ==
  \A t \in Threads :
    (Called(t) /\ once = "COMPLETE" /\ ~sodiumoxide_init_result)
      => (pc[t] = "panicked" /\ out[t].kind = "Panic" /\ out[t].ret = None)

C4_Witness ==
  \E t \in Threads :
    /\ pc[t] = "panicked"
    /\ inits = <<FALSE>>
    /\ Len(arg[t].metadata) > MAX_HEADER_METADATA_SIZE
    /\ out[t].kind = "Panic"

InitState ==
  IF once # "COMPLETE" THEN "UNINITIALIZED"
  ELSE IF sodiumoxide_init_result THEN "INITIALIZED_OK" ELSE "INITIALIZED_FAIL"

InitSticky ==
  /\ InitState # "UNINITIALIZED" => InitState' = InitState
  /\ flagWrites = 1 => sodiumoxide_init_result' = sodiumoxide_init_result

\* C5: however the calls of new() interleave, sodiumoxide::init() runs at
\* most once, the flag is written at most once, the state only moves from
\* UNINITIALIZED to INITIALIZED_OK or INITIALIZED_FAIL and then stays, and
\* every initialise_sodiumoxide() returns the result of that one
\* initialisation, read after it has completed.
C5_InitialisedOnce ==
  /\ [](/\ initCalls <= 1
        /\ flagWrites <= 1
        /\ \A t \in Threads :
             pc[t] \in {"read", "assert", "returned", "panicked"}
               => /\ once = "COMPLETE"
                  /\ initCalls = 1
                  /\ flagWrites = 1
                  /\ sodiumoxide_init_result = inits[1]
                  /\ pc[t] # "read" => ret[t] = inits[1])
  /\ [][InitSticky]_vars

C5_Witness ==
  \E t, u \in Threads :
    /\ t # u
    /\ pc[t] = "returned" /\ init_ret[t] /\ inits = <<TRUE>>
    /\ pc[u] = "assert" /\ ret[u]

(* ----------------------- claims about SpecFull -------------------------- *)

PairBuilt == t_header1 # None /\ t_header2 # None

Name1 == name(t_header1[1], limited)

Name2 == name(t_header2[1], limited)

C10_PerturbationChangesKey ==
  /\ t_result # "panic l172"
  /\ t_pc = "l176" => t_public_key # PublicKeyOf(t_secret_key[1])
  /\ t_result # "failed l176"

====
